---- MODULE Spec2Model ----
(***************************************************************************)
(* astro-uploader: the astro:build:done hook of its three implementations  *)
(*   "v1"  src/src/index.ts          opendal, one keep/override for all    *)
(*   "v2"  src/unnamed/part_002:207  opendal, per-path recursive/keep/     *)
(*                                   override                              *)
(*   "aws" src/unnamed/part_002:1    AWS SDK, walk() with a per-directory  *)
(*                                   callback                              *)
(*                                                                         *)
(* A string is a sequence of tokens: a file or directory name, or one of   *)
(* the separators "/" and "\\".  A local absolute path is the sequence of  *)
(* its names.  The local file system maps the absolute paths that exist to *)
(* their stat; the remote store maps the keys that exist to their          *)
(* content-length.                                                         *)
(***************************************************************************)
EXTENDS Integers, Sequences, FiniteSets, TLC

VARIABLES
  impl,     \* which implementation runs
  win,      \* TRUE when node:path is path.win32
  cwd,      \* the process working directory (absolute path)
  opts,     \* the options object handed to uploader(...)
  fs,       \* the local file system
  remote,   \* the remote object store
  pc,       \* the position of the hook
  targets,  \* the resolved upload paths
  ti,       \* index of the target being processed
  stack,    \* pending uploadFile calls (v1, v2) / pending directories of walk (aws)
  tasks,    \* aws: the upload tasks of the batch started by Promise.all
  ops,      \* history: the storage and removal calls issued by this run
  seen,     \* history: the files this run has considered
  run,      \* history: number of the run
  fs0,      \* history: the local file system when this run started
  fsT,      \* history: the local file system when this target's walk started
  remote0   \* history: the remote store when this run started

vars == <<impl, win, cwd, opts, fs, remote, pc, targets, ti, stack, tasks,
          ops, seen, run, fs0, fsT, remote0>>

\* ---------------------------------------------------------------- bounds

\* Local and remote sizes range over 1..MaxSize.
MaxSize == 2
\* The hook is run at most MaxRuns times over the same tree and store.
MaxRuns == 2

\* ------------------------------------------------------------ sequences

Last(s) == s[Len(s)]
Front(s) == SubSeq(s, 1, Len(s) - 1)
IsPrefix(p, s) == Len(p) <= Len(s) /\ SubSeq(s, 1, Len(p)) = p
Range(s) == {s[i] : i \in DOMAIN s}

\* ---------------------------------------------------------------- paths

IsSep(t) == t = "/" \/ t = "\\"

\* path.sep of the platform's node:path
Sep == IF win THEN "\\" ELSE "/"

\* The names of a string, its separators dropped.
RECURSIVE Split(_)
Split(s) ==
  IF s = <<>> THEN <<>>
  ELSE IF IsSep(Head(s)) THEN Split(Tail(s))
  ELSE <<Head(s)>> \o Split(Tail(s))

IsAbs(s) == s # <<>> /\ IsSep(s[1])

\* path.normalize on the names: ".." removes the name before it; at the
\* root of an absolute path it is dropped, at the start of a relative path
\* it is kept.
RECURSIVE NormSegs(_, _, _)
NormSegs(segs, abs, acc) ==
  IF segs = <<>> THEN acc
  ELSE IF Head(segs) = ".."
    THEN IF acc # <<>> /\ Last(acc) # ".."
           THEN NormSegs(Tail(segs), abs, Front(acc))
           ELSE IF abs THEN NormSegs(Tail(segs), abs, acc)
           ELSE NormSegs(Tail(segs), abs, Append(acc, ".."))
    ELSE NormSegs(Tail(segs), abs, Append(acc, Head(segs)))

RECURSIVE Interleave(_, _)
Interleave(segs, sep) ==
  IF segs = <<>> THEN <<>>
  ELSE IF Len(segs) = 1 THEN segs
  ELSE <<Head(segs), sep>> \o Interleave(Tail(segs), sep)

\* The string of an absolute or relative list of names; the empty relative
\* path is ".".
Emit(abs, segs, sep) ==
  IF abs THEN <<sep>> \o Interleave(segs, sep)
  ELSE IF segs = <<>> THEN <<".">>
  ELSE Interleave(segs, sep)

NoDot(segs) == SelectSeq(segs, LAMBDA n : n # ".")

\* path.join(a, b): the non-empty arguments joined with the separator, then
\* normalized.
PathJoin(a, b) ==
  LET j == IF a = <<>> THEN b ELSE IF b = <<>> THEN a ELSE a \o <<Sep>> \o b
  IN  Emit(IsAbs(j), NormSegs(NoDot(Split(j)), IsAbs(j), <<>>), Sep)

\* The absolute path a string names for node:fs; a relative string is
\* resolved against the working directory.
Resolve(s) ==
  IF IsAbs(s) THEN NormSegs(NoDot(Split(s)), TRUE, <<>>)
  ELSE NormSegs(cwd \o NoDot(Split(s)), TRUE, <<>>)

\* String.prototype.startsWith('.') on a name.
DotNames == {".DS_Store", ".hid", ".keep", ".", ".."}
StartsWithDot(n) == n \in DotNames

\* "Change the windows path into the unix path."
normalizePath(current) ==
  [i \in DOMAIN current |-> IF current[i] = "\\" THEN "/" ELSE current[i]]

\* ------------------------------------------------------ local file system

File(n) == [dir |-> FALSE, size |-> n]
Dir == [dir |-> TRUE, size |-> 0]

\* dir.pathname of the astro:build:done hook: the build output directory.
DirPathname == <<"/", "dist">>
OutDir == <<"dist">>

\* The tree before the first run.  The project root also holds a directory
\* "assets" of its own.
LocalTree(sa) ==
     (<<>> :> Dir)
  @@ (<<"assets">> :> Dir)
  @@ (<<"assets", "a.png">> :> File(1))
  @@ (<<"secrets">> :> File(1))
  @@ (<<"dist">> :> Dir)
  @@ (<<"dist", "f.txt">> :> File(2))
  @@ (<<"dist", "assets">> :> Dir)
  @@ (<<"dist", "assets", ".DS_Store">> :> File(1))
  @@ (<<"dist", "assets", ".hid">> :> Dir)
  @@ (<<"dist", "assets", ".hid", "c.png">> :> File(1))
  @@ (<<"dist", "assets", "a.png">> :> File(sa))
  @@ (<<"dist", "assets", "d.css">> :> File(1))
  @@ (<<"dist", "assets", "sub">> :> Dir)
  @@ (<<"dist", "assets", "sub", ".keep">> :> File(1))
  @@ (<<"dist", "assets", "sub", "b.png">> :> File(1))

\* The order in which readdirSync lists names.
NameOrder == <<".DS_Store", ".hid", ".keep", "a.png", "assets", "b.png",
               "c.png", "d.css", "dist", "f.txt", "secrets", "sub">>

Exists(f, p) == p \in DOMAIN f
IsDirectory(f, p) == f[p].dir

\* fs.readdirSync(p): the names of the entries of directory p.
Readdir(f, p) == SelectSeq(NameOrder, LAMBDA n : Append(p, n) \in DOMAIN f)

\* rimrafSync(p) / rm(p, {recursive, force}): p and everything below it.
Rimraf(f, p) == [q \in {q \in DOMAIN f : ~IsPrefix(p, q)} |-> f[q]]

\* ----------------------------------------------------------- remote store

Absent == -2
NullLen == -1

RemoteSize(r, k) == IF k \in DOMAIN r THEN r[k] ELSE Absent
RemotePut(r, k, n) == [q \in DOMAIN r \cup {k} |-> IF q = k THEN n ELSE r[q]]
RemoteDelete(r, k) == [q \in DOMAIN r \ {k} |-> r[q]]

\* -------------------------------------------------------------- options

Opendal == {"v1", "v2"}

\* An optional option is the empty set when undefined, else {value}.
Opt(x, d) == IF x = {} THEN d ELSE CHOOSE v \in x : TRUE

StrEntry(p) == [str |-> TRUE, path |-> p, recursive |-> {}, keep |-> {}, override |-> {}]
ObjEntry(p, r, k, o) == [str |-> FALSE, path |-> p, recursive |-> r, keep |-> k, override |-> o]

PAssets == <<"assets">>
PFile == <<"f.txt">>
PSub == <<"assets", "/", "sub">>
\* "../secrets" and "assets/../../secrets": the file beside the build
\* output directory.
PUp == <<"..", "/", "secrets">>
PEmbedded == <<"assets", "/", "..", "/", "..", "/", "secrets">>
\* A path that names nothing.
PNope == <<"nope">>

PathLists ==
  {<<PAssets>>, <<PFile>>, <<PSub, PAssets>>, <<PUp>>, <<PEmbedded>>,
   <<PFile, PNope>>}

Options(paths, r, k, o, root) ==
  [paths |-> paths, recursive |-> r, keep |-> k, override |-> o, root |-> root,
   enable |-> {}]

\* The options with enable: false.
Disable(o) == [o EXCEPT !.enable = {FALSE}]

\* Variant of Enabled that does not look at the option.
Enabled_always(o) == TRUE

\* v2: enable: z.boolean().optional().default(true); aws: options.enable === false
Enabled(o) == Opt(o.enable, TRUE)

AllStr(L) == [i \in DOMAIN L |-> StrEntry(L[i])]
LastObj(L, r, k, o) ==
  [i \in DOMAIN L |-> IF i = Len(L) THEN ObjEntry(L[i], r, k, o) ELSE StrEntry(L[i])]

\* v1: paths: string[], keep?, override?
V1Options ==
  {Options(AllStr(L), {}, k, o, <<>>) :
     L \in PathLists, k \in {{}, {TRUE}}, o \in {{}, {TRUE}}}

\* v2: paths: Array<string | Path>, recursive?, keep?, override?
V2Options ==
  {Options(AllStr(L), r, k, o, <<>>) :
     L \in PathLists, r \in {{}, {FALSE}}, k \in {{}, {TRUE}}, o \in {{}, {TRUE}}}
  \cup
  {Options(LastObj(L, {r}, {k}, {o}), {}, {}, {}, <<>>) :
     L \in PathLists, r \in BOOLEAN, k \in BOOLEAN, o \in BOOLEAN}
  \cup
  {Disable(Options(AllStr(L), {}, {}, {}, <<>>)) : L \in PathLists}
  \cup
  {Disable(Options(<<>>, {}, {}, {}, <<>>))}

\* aws: paths: Array<string | Path>, root?
AwsOptions ==
  {Options(AllStr(L), {}, {}, {}, root) :
     L \in PathLists, root \in {<<>>, <<"site">>}}
  \cup
  {Options(LastObj(L, {r}, {k}, {o}), {}, {}, {}, root) :
     L \in PathLists, r \in BOOLEAN, k \in BOOLEAN, o \in BOOLEAN,
     root \in {<<>>, <<"site">>}}
  \cup
  {Disable(Options(<<>>, {}, {}, {}, <<>>))}

\* v2: S3Options.parse(opts), paths: z.array(...).min(1); parseOptions
\* rethrows the ZodError.  An options object without paths is <<>> here.
Valid(o) == o.paths # <<>>

Target(p, r, k, o) == [path |-> p, recursive |-> r, keep |-> k, override |-> o]

\* v1 parseOptions and the hook's loop: every path is walked to any depth
\* under the one keep and the one override of the options.
parseOptions(o) ==
  [i \in DOMAIN o.paths |->
     Target(o.paths[i].path, TRUE, Opt(o.keep, FALSE), Opt(o.override, FALSE))]

\* v2 parseOptions: resolvedPaths
parseOptionsV2(o) ==
  LET recursive == Opt(o.recursive, TRUE)
      keep == Opt(o.keep, FALSE)
      override == Opt(o.override, FALSE)
  IN  [i \in DOMAIN o.paths |->
         LET path == o.paths[i]
         IN  IF path.str THEN Target(path.path, recursive, keep, override)
             ELSE Target(path.path,
                         Opt(path.recursive, recursive),
                         Opt(path.keep, keep),
                         Opt(path.override, override))]

\* aws: uploadPaths
uploadPaths(o) ==
  [i \in DOMAIN o.paths |->
     LET path == o.paths[i]
     IN  IF path.str THEN Target(path.path, TRUE, FALSE, FALSE)
         ELSE Target(path.path,
                     path.recursive # {FALSE},
                     path.keep = {TRUE},
                     path.override = {TRUE})]

\* aws: path.startsWith('..')
StartsWithDotDot(p) == p # <<>> /\ p[1] = ".."

\* ----------------------------------------------------------------- Init

Sizes == 1..MaxSize

\* The keys under which the store may hold a.png, b.png and f.txt before
\* the first run.
KeysA == {<<"assets", "/", "a.png">>,
          <<"/", "dist", "/", "assets", "/", "a.png">>,
          <<"site", "/", "assets", "/", "a.png">>}
KeysRest == {<<"assets", "/", "sub", "/", "b.png">>,
             <<"/", "dist", "/", "assets", "/", "sub", "/", "b.png">>,
             <<"f.txt">>,
             <<"/", "dist", "/", "f.txt">>}
SizeRest(k) == IF Last(k) = "f.txt" THEN 2 ELSE 1

RemoteStore(ra, rest) ==
  [k \in (IF ra = Absent THEN {} ELSE KeysA) \cup (IF rest THEN KeysRest ELSE {})
     |-> IF k \in KeysA THEN ra ELSE SizeRest(k)]

Init ==
  /\ impl \in {"v1", "v2", "aws"}
  /\ win \in BOOLEAN
  /\ cwd \in (IF impl = "v2" THEN {<<>>, OutDir} ELSE {<<>>})
  /\ opts \in (CASE impl = "v1" -> V1Options
                 [] impl = "v2" -> V2Options
                 [] OTHER -> AwsOptions)
  /\ \E sa \in Sizes : fs = LocalTree(sa)
  /\ \E ra \in {Absent, NullLen} \cup Sizes, rest \in BOOLEAN :
       remote = RemoteStore(ra, rest)
  /\ pc = "start"
  /\ targets = <<>>
  /\ ti = 0
  /\ stack = <<>>
  /\ tasks = <<>>
  /\ ops = <<>>
  /\ seen = <<>>
  /\ run = 1
  /\ fs0 = fs
  /\ fsT = fs
  /\ remote0 = remote

\* -------------------------------------------------------------- history

Log(op, key, n, ok, res) ==
  [op |-> op, key |-> key, n |-> n, t |-> ti, ok |-> ok, res |-> res]

Considered(path, key, ovr) ==
  [t |-> ti, path |-> path, key |-> key, size |-> fs[path].size, ovr |-> ovr,
   r0 |-> RemoteSize(remote, key)]

\* Variant of Cur that takes the targets from the end of the list.
Cur_reversed == targets[Len(targets) + 1 - ti]

\* for (const current of paths): the target of the running iteration.
Cur == targets[ti]
Top == Head(stack)
File_ == seen[Len(seen)]

\* --------------------------------------------------- v1 and v2: the hook

\* const { options, paths, ... } = parseOptions(opts, logger)
Start ==
  /\ pc = "start"
  /\ impl \in Opendal
  /\ targets' = IF impl = "v1" THEN parseOptions(opts) ELSE parseOptionsV2(opts)
  /\ pc' = IF impl = "v2" /\ ~Valid(opts) THEN "failed"
           ELSE IF impl = "v2" /\ ~Enabled(opts) THEN "done"
           ELSE "check"
  /\ UNCHANGED <<impl, win, cwd, opts, fs, remote, ti, stack, tasks, ops, seen,
                 run, fs0, fsT, remote0>>

\* Variant of AfterCheck that swallows the rejection of the check.
AfterCheck_ignored(ok) == "loop"

\* A failed connectivity check rejects the hook.
AfterCheck(ok) == IF ok THEN "loop" ELSE "failed"

\* await operator.check()
Check(ok) ==
  /\ pc = "check"
  /\ ops' = Append(ops, Log("check", <<>>, 0, ok, 0))
  /\ pc' = AfterCheck(ok)
  /\ ti' = 1
  /\ UNCHANGED <<impl, win, cwd, opts, fs, remote, targets, stack, tasks, seen,
                 run, fs0, fsT, remote0>>

\* for (const current of paths) { await uploadFile(uploader, logger, current, dir.pathname)
NextTarget ==
  /\ pc = "loop"
  /\ ti <= Len(targets)
  /\ stack' = <<[p |-> Cur.path, lazy |-> FALSE]>>
  /\ pc' = "walk"
  /\ fsT' = fs
  /\ UNCHANGED <<impl, win, cwd, opts, fs, remote, targets, ti, tasks, ops, seen,
                 run, fs0, remote0>>

\* logger.info('Upload all the files successfully.')
Finish ==
  /\ pc = "loop"
  /\ ti > Len(targets)
  /\ pc' = "done"
  /\ UNCHANGED <<impl, win, cwd, opts, fs, remote, targets, ti, stack, tasks, ops,
                 seen, run, fs0, fsT, remote0>>

\* ---------------------------------------------- v1 and v2: uploadFile

\* const filePath = path.join(root, current)      (v1)
\* const filePath = current.path                  (v2)
filePath(current) ==
  IF impl = "v1" THEN PathJoin(DirPathname, current) ELSE current

\* const key = normalizePath(current)                           (v1)
\* const key = normalizePath(path.join(root, current.path))     (v2)
uploadKey(current) ==
  IF impl = "v1" THEN normalizePath(current)
  ELSE normalizePath(PathJoin(DirPathname, current))

\* Variant of Visible without the startsWith('.') test.
Visible_all(names) == names

\* if (next.startsWith('.')) continue
Visible(names) == SelectSeq(names, LAMBDA n : ~StartsWithDot(n))

\* Variant of Descend that passes every entry on to uploadFile.
Descend_always(recursive, isDir) == TRUE

\* if (current.recursive || !fs.statSync(nextFilePath).isDirectory())
Descend(recursive, isDir) == recursive \/ ~isDir

\* v2: if (!current.keep && !current.recursive) rimrafSync(current.path)
RemovesFile == impl = "v2" /\ ~Cur.keep /\ ~Cur.recursive
AfterFileFs(rmok) == IF RemovesFile /\ rmok THEN Rimraf(fs, File_.path) ELSE fs
AfterFileOps(rmok) ==
  IF RemovesFile THEN <<Log("rimraf", File_.path, Len(seen), rmok, 0)>> ELSE <<>>

\* rimrafSync is called outside any try: when it throws, uploadFile and the
\* hook reject.
AfterRimraf(rmok, next) == IF rmok THEN next ELSE "failed"
AfterFilePc(rmok) == IF RemovesFile THEN AfterRimraf(rmok, "walk") ELSE "walk"

\* fs.statSync throws ENOENT: uploadFile rejects, and so does the hook.
StatMissing ==
  /\ pc = "walk"
  /\ impl \in Opendal
  /\ stack # <<>>
  /\ ~Exists(fs, Resolve(filePath(Top.p)))
  /\ pc' = "failed"
  /\ UNCHANGED <<impl, win, cwd, opts, fs, remote, targets, ti, stack, tasks, ops,
                 seen, run, fs0, fsT, remote0>>

\* v2, recursive: false: an entry that is a directory is passed over.
SkipSubdir ==
  /\ pc = "walk"
  /\ impl = "v2"
  /\ stack # <<>>
  /\ Top.lazy
  /\ Exists(fs, Resolve(filePath(Top.p)))
  /\ ~Descend(Cur.recursive, IsDirectory(fs, Resolve(filePath(Top.p))))
  /\ stack' = Tail(stack)
  /\ UNCHANGED <<impl, win, cwd, opts, fs, remote, pc, targets, ti, tasks, ops,
                 seen, run, fs0, fsT, remote0>>

Entered ==
  /\ Exists(fs, Resolve(filePath(Top.p)))
  /\ impl = "v2" /\ Top.lazy =>
       Descend(Cur.recursive, IsDirectory(fs, Resolve(filePath(Top.p))))

\* uploadFile on a directory: one uploadFile call per listed entry, in order.
EnterDir ==
  /\ pc = "walk"
  /\ impl \in Opendal
  /\ stack # <<>>
  /\ Entered
  /\ IsDirectory(fs, Resolve(filePath(Top.p)))
  /\ LET names == Visible(Readdir(fs, Resolve(filePath(Top.p))))
         calls == [i \in DOMAIN names |->
                     [p |-> PathJoin(Top.p, <<names[i]>>), lazy |-> TRUE]]
     IN  stack' = calls \o Tail(stack)
  /\ UNCHANGED <<impl, win, cwd, opts, fs, remote, pc, targets, ti, tasks, ops,
                 seen, run, fs0, fsT, remote0>>

\* uploadFile on a file: the key is computed and the existence check begins.
VisitFile ==
  /\ pc = "walk"
  /\ impl \in Opendal
  /\ stack # <<>>
  /\ Entered
  /\ ~IsDirectory(fs, Resolve(filePath(Top.p)))
  /\ seen' = Append(seen, Considered(Resolve(filePath(Top.p)), uploadKey(Top.p),
                                     Cur.override))
  /\ stack' = Tail(stack)
  /\ pc' = IF impl = "v1" THEN "isExist" ELSE "stat"
  /\ UNCHANGED <<impl, win, cwd, opts, fs, remote, targets, ti, tasks, ops, run,
                 fs0, fsT, remote0>>

\* Variant of RemovesTarget that does not look at keep.
RemovesTarget_always == TRUE

\* v1: if (!keep) rimrafSync(path.join(dir.pathname, current))
\* v2: if (!current.keep && current.recursive) rimrafSync(path.join(dir.pathname, current.path))
RemovesTarget ==
  IF impl = "v1" THEN ~Cur.keep ELSE ~Cur.keep /\ Cur.recursive

TargetDone(rmok) ==
  /\ pc = "walk"
  /\ impl \in Opendal
  /\ stack = <<>>
  /\ rmok \/ RemovesTarget
  /\ LET p == Resolve(PathJoin(DirPathname, Cur.path))
     IN  IF RemovesTarget
           THEN /\ fs' = IF rmok THEN Rimraf(fs, p) ELSE fs
                /\ ops' = Append(ops, Log("rimraf", p, 0, rmok, 0))
                /\ pc' = AfterRimraf(rmok, "loop")
           ELSE /\ pc' = "loop"
                /\ UNCHANGED <<fs, ops>>
  /\ ti' = IF rmok THEN ti + 1 ELSE ti
  /\ UNCHANGED <<impl, win, cwd, opts, remote, targets, stack, tasks, seen, run,
                 fs0, fsT, remote0>>

\* ------------------------------------------- v1 and v2: Uploader.isExist

\* v1 isExist after operator.isExist(key) answered true and stat answered
\* len: what it does next.
isExist(len, size, override) ==
  IF len # NullLen /\ len # size
    THEN IF override THEN "delete" ELSE "skip"
    ELSE "write"

\* Variant of isExistV2 that deletes under override only.
isExistV2_overrideonly(len, size, override) ==
  IF override THEN "delete" ELSE "skip"

\* v2 isExist after stat answered len.
isExistV2(len, size, override) ==
  IF (len # NullLen /\ len # size) \/ override THEN "delete" ELSE "skip"

\* Variant of OnNotFound that rethrows NotFound like any other error.
OnNotFound_throw == "failed"

\* v2 isExist, catch (err): NotFound means the object does not exist.
OnNotFound == "write"

\* Variant of OnError that answers false as for NotFound.
OnError_swallowed == "write"

\* v2 isExist, catch (err): any other error is thrown again, and rejects
\* uploadFile and the hook.
OnError == "failed"

\* Variant of AfterDelete that leaves out the upload.
AfterDelete_noupload(ok) == "walk"

\* await this.operator.delete(key); return false: the file is uploaded
\* next; a rejected delete propagates (v2: through the catch).
AfterDelete(ok) ==
  IF ok THEN "write" ELSE IF impl = "v2" THEN OnError ELSE "failed"

\* A skipped file: logger.info(`${key} exists on backend, skip.`)
Skip(rmok) ==
  /\ fs' = AfterFileFs(rmok)
  /\ pc' = AfterFilePc(rmok)

\* v1: const exist = await this.operator.isExist(key)
IsExistCall(ok) ==
  /\ pc = "isExist"
  /\ LET exist == File_.key \in DOMAIN remote
     IN  /\ ops' = Append(ops, Log("isExist", File_.key, Len(seen), ok,
                                   IF exist THEN 1 ELSE 0))
         /\ pc' = IF ~ok THEN "failed" ELSE IF exist THEN "stat" ELSE "write"
  /\ UNCHANGED <<impl, win, cwd, opts, fs, remote, targets, ti, stack, tasks, seen,
                 run, fs0, fsT, remote0>>

\* const { contentLength } = await this.operator.stat(key)
StatCall(ok, rmok) ==
  /\ pc = "stat"
  /\ LET len == RemoteSize(remote, File_.key)
         next == IF ~ok THEN (IF impl = "v2" THEN OnError ELSE "failed")
                 ELSE IF len = Absent
                   THEN (IF impl = "v2" THEN OnNotFound ELSE "failed")
                 ELSE IF impl = "v1"
                   THEN isExist(len, File_.size, File_.ovr)
                 ELSE isExistV2(len, File_.size, File_.ovr)
     IN  /\ rmok \/ (next = "skip" /\ RemovesFile)
         /\ IF next = "skip"
              THEN /\ Skip(rmok)
                   /\ ops' = Append(ops, Log("stat", File_.key, Len(seen), ok, len))
                               \o AfterFileOps(rmok)
              ELSE /\ pc' = next
                   /\ fs' = fs
                   /\ ops' = Append(ops, Log("stat", File_.key, Len(seen), ok, len))
  /\ UNCHANGED <<impl, win, cwd, opts, remote, targets, ti, stack, tasks, seen, run,
                 fs0, fsT, remote0>>

\* await this.operator.delete(key); return false
DeleteCall(ok) ==
  /\ pc = "delete"
  /\ ops' = Append(ops, Log("delete", File_.key, Len(seen), ok, 0))
  /\ remote' = IF ok THEN RemoteDelete(remote, File_.key) ELSE remote
  /\ pc' = AfterDelete(ok)
  /\ UNCHANGED <<impl, win, cwd, opts, fs, targets, ti, stack, tasks, seen, run,
                 fs0, fsT, remote0>>

\* Variant of AfterPut that swallows the rejection of the write.
AfterPut_ignored(ok) == "walk"

\* await uploader.write(key, body): a rejected write rejects uploadFile and
\* the hook.
AfterPut(ok) == IF ok THEN "walk" ELSE "failed"

\* uploadAction(key): readFileSync(filePath), then uploader.write(key, body)
WriteCall(ok, rmok) ==
  /\ pc = "write"
  /\ LET go == AfterPut(ok) # "failed"
     IN  /\ rmok \/ (go /\ RemovesFile)
         /\ ops' = Append(ops, Log("put", File_.key, Len(seen), ok, File_.size))
                     \o (IF go THEN AfterFileOps(rmok) ELSE <<>>)
         /\ remote' = IF ok THEN RemotePut(remote, File_.key, fs[File_.path].size)
                      ELSE remote
         /\ fs' = IF go THEN AfterFileFs(rmok) ELSE fs
         /\ pc' = IF go THEN AfterFilePc(rmok) ELSE "failed"
  /\ UNCHANGED <<impl, win, cwd, opts, targets, ti, stack, tasks, seen, run, fs0, fsT,
                 remote0>>

\* ------------------------------------------------------------------ aws

\* vite normalizePath: path.posix.normalize(isWindows ? slash(id) : id)
viteNormalizePath(id) ==
  LET s == IF win THEN normalizePath(id) ELSE id
  IN  Emit(IsAbs(s), NormSegs(NoDot(Split(s)), IsAbs(s), <<>>), "/")

\* normalizePath(join(bucketRoot, relative, file.name))
targetPath(bucketRoot, relative, name) ==
  viteNormalizePath(PathJoin(PathJoin(bucketRoot, relative), <<name>>))

\* files.filter(async (file) => ...): the predicate answers a Promise, which
\* is truthy whatever it resolves to, so every file is kept.
filesToUpload(files, objects) == files

\* if (options.enable === false) { ...; return }
AwsDisabled ==
  /\ pc = "start"
  /\ impl = "aws"
  /\ ~Enabled(opts)
  /\ pc' = "done"
  /\ UNCHANGED <<impl, win, cwd, opts, fs, remote, targets, ti, stack, tasks, ops,
                 seen, run, fs0, fsT, remote0>>

\* createClient: await client.send(new HeadBucketCommand({ Bucket: bucket }))
AwsHead(ok) ==
  /\ pc = "start"
  /\ impl = "aws"
  /\ Enabled(opts)
  /\ ops' = Append(ops, Log("check", <<>>, 0, ok, 0))
  /\ pc' = IF AfterCheck(ok) = "loop" THEN "map" ELSE "failed"
  /\ UNCHANGED <<impl, win, cwd, opts, fs, remote, targets, ti, stack, tasks, seen,
                 run, fs0, fsT, remote0>>

\* const uploadPaths = paths.map(...), which throws on a path that starts
\* with '..'
AwsMap ==
  /\ pc = "map"
  /\ IF \E i \in DOMAIN opts.paths : StartsWithDotDot(opts.paths[i].path)
       THEN pc' = "failed" /\ UNCHANGED <<targets, ti>>
       ELSE pc' = "loop" /\ targets' = uploadPaths(opts) /\ ti' = 1
  /\ UNCHANGED <<impl, win, cwd, opts, fs, remote, stack, tasks, ops, seen, run,
                 fs0, fsT, remote0>>

\* walk(rootPath, filePath, { recursive }, callback): root/subPath is missing
AwsWalkMissing ==
  /\ pc = "walk"
  /\ impl = "aws"
  /\ stack # <<>>
  /\ ~Exists(fs, Resolve(PathJoin(DirPathname, Top.p)))
  /\ pc' = "failed"
  /\ UNCHANGED <<impl, win, cwd, opts, fs, remote, targets, ti, stack, tasks, ops,
                 seen, run, fs0, fsT, remote0>>

\* The batch walk hands to the callback: the files of one directory and the
\* directory's path relative to rootPath.
Batch(relative, paths) ==
  [i \in DOMAIN paths |->
     Considered(paths[i], targetPath(opts.root, relative, Last(paths[i])),
                Cur.override)]

StartBatch(files) ==
  /\ seen' = seen \o files
  /\ tasks' = [i \in DOMAIN files |-> [n |-> Len(seen) + i, st |-> "reading"]]
  /\ pc' = IF files = <<>> THEN "walk" ELSE IF Cur.override THEN "upload" ELSE "list"

\* walk on a regular file: the callback gets exactly that file.
AwsWalkFile ==
  /\ pc = "walk"
  /\ impl = "aws"
  /\ stack # <<>>
  /\ LET p == Resolve(PathJoin(DirPathname, Top.p))
     IN  /\ Exists(fs, p)
         /\ ~IsDirectory(fs, p)
         /\ StartBatch(Batch(Emit(FALSE, Front(Split(Top.p)), Sep), <<p>>))
  /\ stack' = Tail(stack)
  /\ UNCHANGED <<impl, win, cwd, opts, fs, remote, targets, ti, ops, run, fs0, fsT,
                 remote0>>

\* walk on a directory: hidden entries are skipped, the files go to the
\* callback, the directories are descended into when recursive.
AwsWalkDir ==
  /\ pc = "walk"
  /\ impl = "aws"
  /\ stack # <<>>
  /\ LET p == Resolve(PathJoin(DirPathname, Top.p))
     IN  /\ Exists(fs, p)
         /\ IsDirectory(fs, p)
         /\ LET names == Visible(Readdir(fs, p))
                files == SelectSeq(names, LAMBDA n : ~IsDirectory(fs, Append(p, n)))
                dirs == SelectSeq(names, LAMBDA n : IsDirectory(fs, Append(p, n)))
            IN  /\ StartBatch(Batch(Top.p, [i \in DOMAIN files |-> Append(p, files[i])]))
                /\ stack' = (IF Cur.recursive
                               THEN [i \in DOMAIN dirs |->
                                       [p |-> PathJoin(Top.p, <<dirs[i]>>), lazy |-> FALSE]]
                               ELSE <<>>) \o Tail(stack)
  /\ UNCHANGED <<impl, win, cwd, opts, fs, remote, targets, ti, ops, run, fs0, fsT,
                 remote0>>

\* const response = await client.send(listCommand)
AwsList(ok) ==
  /\ pc = "list"
  /\ ops' = Append(ops, Log("list", <<>>, 0, ok, 0))
  /\ pc' = IF ok THEN "upload" ELSE "failed"
  /\ tasks' = IF ok
                THEN filesToUpload(tasks, remote)
                ELSE <<>>
  /\ UNCHANGED <<impl, win, cwd, opts, fs, remote, targets, ti, stack, seen, run,
                 fs0, fsT, remote0>>

\* One task of Promise.all: readFile has answered and the put is sent.  A
\* task goes on after the hook has been rejected by another task.
AwsSend(i, ok) ==
  /\ pc \in {"upload", "failed"}
  /\ tasks[i].st = "reading"
  /\ LET f == seen[tasks[i].n]
     IN  /\ ops' = Append(ops, Log("put", f.key, tasks[i].n, ok, f.size))
         /\ remote' = IF ok THEN RemotePut(remote, f.key, f.size) ELSE remote
  /\ tasks' = [tasks EXCEPT ![i].st = IF ok THEN "sent" ELSE "rejecting"]
  /\ UNCHANGED <<impl, win, cwd, opts, fs, pc, targets, ti, stack, seen, run, fs0, fsT,
                 remote0>>

\* The put of one task answers: the task is fulfilled, or it rejects and
\* Promise.all rejects the callback, walk and the hook.
AwsSettle(i) ==
  /\ pc \in {"upload", "failed"}
  /\ tasks[i].st \in {"sent", "rejecting"}
  /\ tasks' = [tasks EXCEPT ![i].st = IF tasks[i].st = "sent" THEN "done" ELSE "failed"]
  /\ pc' = IF tasks[i].st = "sent" THEN pc ELSE "failed"
  /\ UNCHANGED <<impl, win, cwd, opts, fs, remote, targets, ti, stack, ops, seen,
                 run, fs0, fsT, remote0>>

\* Variant of BatchSettled that does not wait for the tasks.
BatchSettled_nowait == TRUE

\* await Promise.all(...): every task of the batch is fulfilled.
BatchSettled == \A i \in DOMAIN tasks : tasks[i].st = "done"

\* if (!keep) await Promise.all(files.map(file => unlink(file.path)))
\* Every unlink is started; a rejected one (f, 0 for none) rejects the
\* callback, walk and the hook.
AwsBatchDone(f) ==
  /\ pc = "upload"
  /\ BatchSettled
  /\ f = 0 \/ ~Cur.keep
  /\ LET paths == [i \in DOMAIN tasks |-> seen[tasks[i].n].path]
         gone == {paths[i] : i \in DOMAIN tasks \ {f}}
     IN  IF ~Cur.keep
           THEN /\ fs' = [q \in DOMAIN fs \ gone |-> fs[q]]
                /\ ops' = ops \o [i \in DOMAIN tasks |->
                                    Log("unlink", paths[i], tasks[i].n, i # f, 0)]
           ELSE UNCHANGED <<fs, ops>>
  /\ pc' = IF f = 0 THEN "walk" ELSE "failed"
  /\ UNCHANGED <<impl, win, cwd, opts, remote, targets, ti, stack, tasks, seen, run,
                 fs0, fsT, remote0>>

\* if (!keep) try { await rm(resolve(join(rootPath, filePath)), { recursive: true, force: true }) }
\* catch (err) { logger.error(...) }: a failed rm is logged and the loop goes on.
AwsTargetDone(rmok) ==
  /\ pc = "walk"
  /\ impl = "aws"
  /\ stack = <<>>
  /\ rmok \/ ~Cur.keep
  /\ LET p == Resolve(PathJoin(DirPathname, Cur.path))
     IN  IF ~Cur.keep
           THEN /\ fs' = IF rmok THEN Rimraf(fs, p) ELSE fs
                /\ ops' = Append(ops, Log("rm", p, 0, rmok, 0))
           ELSE UNCHANGED <<fs, ops>>
  /\ ti' = ti + 1
  /\ pc' = "loop"
  /\ UNCHANGED <<impl, win, cwd, opts, remote, targets, stack, tasks, seen, run,
                 fs0, fsT, remote0>>

\* The build runs again over the tree and the store the last run left.
Rerun ==
  /\ pc = "done"
  /\ run < MaxRuns
  /\ run' = run + 1
  /\ pc' = "start"
  /\ targets' = <<>>
  /\ ti' = 0
  /\ ops' = <<>>
  /\ seen' = <<>>
  /\ tasks' = <<>>
  /\ fs0' = fs
  /\ fsT' = fs
  /\ remote0' = remote
  /\ UNCHANGED <<impl, win, cwd, opts, fs, remote, stack>>

Next ==
  \/ Start
  \/ \E ok \in BOOLEAN : Check(ok)
  \/ NextTarget
  \/ Finish
  \/ StatMissing
  \/ SkipSubdir
  \/ EnterDir
  \/ VisitFile
  \/ \E rmok \in BOOLEAN : TargetDone(rmok)
  \/ \E ok \in BOOLEAN : IsExistCall(ok)
  \/ \E ok \in BOOLEAN, rmok \in BOOLEAN : StatCall(ok, rmok)
  \/ \E ok \in BOOLEAN : DeleteCall(ok)
  \/ \E ok \in BOOLEAN, rmok \in BOOLEAN : WriteCall(ok, rmok)
  \/ AwsDisabled
  \/ \E ok \in BOOLEAN : AwsHead(ok)
  \/ AwsMap
  \/ AwsWalkMissing
  \/ AwsWalkFile
  \/ AwsWalkDir
  \/ \E ok \in BOOLEAN : AwsList(ok)
  \/ \E i \in DOMAIN tasks, ok \in BOOLEAN : AwsSend(i, ok)
  \/ \E i \in DOMAIN tasks : AwsSettle(i)
  \/ \E f \in {0} \cup DOMAIN tasks : AwsBatchDone(f)
  \/ \E rmok \in BOOLEAN : AwsTargetDone(rmok)
  \/ Rerun

Spec == Init /\ [][Next]_vars

\* =============================================================== claims

PutsOf(i) == {j \in DOMAIN ops : ops[j].op = "put" /\ ops[j].n = i}
DeletesOf(i) == {j \in DOMAIN ops : ops[j].op = "delete" /\ ops[j].n = i}

\* The hook is through with file i of seen, and has not failed.
Finished(i) ==
  /\ pc # "failed"
  /\ IF impl = "aws"
       THEN \A j \in DOMAIN tasks : tasks[j].n = i => tasks[j].st = "done"
       ELSE i < Len(seen) \/ pc \in {"walk", "loop", "done"}

\* The key of a local file: the configured root prefix, then the file's
\* path relative to the build output directory, joined with "/".
RelativeKey(path) ==
  Interleave(Split(opts.root) \o SubSeq(path, Len(OutDir) + 1, Len(path)), "/")

KeyIsRelative(j) ==
  LET f == seen[ops[j].n]
  IN  IsPrefix(OutDir, f.path) /\ ops[j].key = RelativeKey(f.path)

\* C1: every put has as its key the file's path relative to the build
\* output directory, forward-slash separated, under the root prefix only.
C1_PutKeyIsRelativePath ==
  \A j \in DOMAIN ops : ops[j].op = "put" => KeyIsRelative(j)

\* C2: a file whose remote object has exactly the local size, under
\* override = false, gets no put and no remote delete.
C2_SameSizeNoOverrideUntouched ==
  \A i \in DOMAIN seen :
    (seen[i].r0 = seen[i].size /\ ~seen[i].ovr) =>
      PutsOf(i) = {} /\ DeletesOf(i) = {}

\* C3: in v1 with override = false, a file whose remote object exists with
\* a known content-length is put again if and only if the content-length
\* differs from the local size.
C3_V1UploadsIffLengthDiffers ==
  impl = "v1" =>
    \A i \in DOMAIN seen :
      (seen[i].r0 >= 0 /\ ~seen[i].ovr) =>
        /\ PutsOf(i) # {} => seen[i].r0 # seen[i].size
        /\ (Finished(i) /\ seen[i].r0 # seen[i].size) => PutsOf(i) # {}

\* C4: in v2, a file whose remote object exists with a known size other
\* than the local size gets, under either override, at most one remote
\* delete and at most one put, a put only after the delete has succeeded,
\* and exactly one of each once the hook is through with the file.
C4_V2MismatchDeleteThenPut ==
  impl = "v2" =>
    \A i \in DOMAIN seen :
      (seen[i].r0 >= 0 /\ seen[i].r0 # seen[i].size) =>
        /\ Cardinality(DeletesOf(i)) <= 1
        /\ Cardinality(PutsOf(i)) <= 1
        /\ \A j \in PutsOf(i) : \E d \in DeletesOf(i) : d < j /\ ops[d].ok
        /\ Finished(i) => Cardinality(DeletesOf(i)) = 1 /\ Cardinality(PutsOf(i)) = 1

C4_Witness ==
  /\ impl = "v2"
  /\ pc = "walk"
  /\ \E i \in DOMAIN seen :
       /\ seen[i].r0 >= 0 /\ seen[i].r0 # seen[i].size /\ ~seen[i].ovr
       /\ \E d \in DeletesOf(i), j \in PutsOf(i) : d < j /\ ops[j].ok

\* C5: in v1 and v2, a file whose remote object has the local size, under
\* override = true, is put, and only after a remote delete of its key.
C5_SameSizeOverrideDeletesFirst ==
  impl \in Opendal =>
    \A i \in DOMAIN seen :
      (seen[i].r0 = seen[i].size /\ seen[i].ovr) =>
        /\ \A j \in PutsOf(i) : \E d \in DeletesOf(i) : d < j
        /\ Finished(i) => PutsOf(i) # {} /\ DeletesOf(i) # {}

\* The stat calls of this run that answered NotFound.
NotFoundStats ==
  {j \in DOMAIN ops : ops[j].op = "stat" /\ ops[j].ok /\ ops[j].res = Absent}

\* C6: in v2, a stat that answers NotFound does not fail the run: the
\* upload follows, no remote delete is issued for the key, and exactly one
\* put is issued for it.
C6_V2NotFoundMeansUpload ==
  impl = "v2" =>
    \A j \in NotFoundStats :
      /\ j = Len(ops) => pc = "write"
      /\ DeletesOf(ops[j].n) = {}
      /\ Cardinality(PutsOf(ops[j].n)) <= 1
      /\ j < Len(ops) => Cardinality(PutsOf(ops[j].n)) = 1
      /\ Finished(ops[j].n) => Cardinality(PutsOf(ops[j].n)) = 1

C6_Witness ==
  /\ impl = "v2"
  /\ pc = "walk"
  /\ stack # <<>>
  /\ \E j \in NotFoundStats : \E k \in PutsOf(ops[j].n) : ops[k].ok

\* C7: a second run after a successful run with keep = true and
\* override = false issues no put and no remote delete.
C7_RerunIssuesNothing ==
  (/\ run >= 2
   /\ targets # <<>>
   /\ \A t \in DOMAIN targets : targets[t].keep /\ ~targets[t].override) =>
    \A j \in DOMAIN ops : ops[j].op \notin {"put", "delete"}

\* The directory the implementation walks for the current target.
TargetLocal == Resolve(filePath(Cur.path))

Below(d, q) == IsPrefix(d, q) /\ q # d

NotHiddenBelow(d, q) == \A k \in (Len(d) + 1)..Len(q) : ~StartsWithDot(q[k])

\* The regular files under d none of whose names below d starts with '.'.
FilesUnder(f, d) ==
  {q \in DOMAIN f : Below(d, q) /\ ~f[q].dir /\ NotHiddenBelow(d, q)}

SeenOfTarget == {i \in DOMAIN seen : seen[i].t = ti}

Walking == pc \in {"walk", "isExist", "stat", "delete", "write"}

\* C8: in v1 and v2, for a directory target walked recursively, the files
\* checked are regular files under the target with no hidden name below
\* it, none is checked twice, and when the walk ends they are all of them.
C8_RecursiveWalkVisitsAllVisibleFiles ==
  (/\ impl \in Opendal
   /\ Walking
   /\ Cur.recursive
   /\ Exists(fsT, TargetLocal)
   /\ IsDirectory(fsT, TargetLocal)) =>
    /\ \A i \in SeenOfTarget : seen[i].path \in FilesUnder(fsT, TargetLocal)
    /\ \A i, k \in SeenOfTarget : seen[i].path = seen[k].path => i = k
    /\ \A j \in DOMAIN ops :
         (ops[j].t = ti /\ ops[j].op \in {"isExist", "stat", "delete", "put"}) =>
           ops[j].n \in SeenOfTarget /\ ops[j].key = seen[ops[j].n].key
    /\ (pc = "walk" /\ stack = <<>>) =>
         {seen[i].path : i \in SeenOfTarget} = FilesUnder(fsT, TargetLocal)

C8_Witness ==
  /\ impl \in Opendal
  /\ pc = "walk"
  /\ stack = <<>>
  /\ Cur.recursive
  /\ TargetLocal = <<"dist", "assets">>
  /\ {seen[i].path : i \in SeenOfTarget} =
       {<<"dist", "assets", "a.png">>, <<"dist", "assets", "d.css">>,
        <<"dist", "assets", "sub", "b.png">>}

\* The non-hidden regular files that are direct children of d.
ChildFiles(f, d) == {q \in FilesUnder(f, d) : Len(q) = Len(d) + 1}

\* C9: in v2, for a directory target with recursive = false, the files
\* checked or put are non-hidden regular files that are direct children of
\* the target, and when the walk ends they are all of them.
C9_V2ShallowWalkVisitsDirectChildren ==
  (/\ impl = "v2"
   /\ Walking
   /\ ~Cur.recursive
   /\ Exists(fsT, TargetLocal)
   /\ IsDirectory(fsT, TargetLocal)) =>
    /\ \A i \in SeenOfTarget : seen[i].path \in ChildFiles(fsT, TargetLocal)
    /\ \A j \in DOMAIN ops :
         (ops[j].t = ti /\ ops[j].op \in {"stat", "delete", "put"}) =>
           ops[j].n \in SeenOfTarget /\ ops[j].key = seen[ops[j].n].key
    /\ (pc = "walk" /\ stack = <<>>) =>
         {seen[i].path : i \in SeenOfTarget} = ChildFiles(fsT, TargetLocal)

C9_Witness ==
  /\ impl = "v2"
  /\ pc = "walk"
  /\ stack = <<>>
  /\ ~Cur.recursive
  /\ TargetLocal = <<"dist", "assets">>
  /\ {seen[i].path : i \in SeenOfTarget} =
       {<<"dist", "assets", "a.png">>, <<"dist", "assets", "d.css">>}

CheckFailed == \E j \in DOMAIN ops : ops[j].op = "check" /\ ~ops[j].ok

\* C10: when the connectivity check fails the run fails, no other storage
\* call is issued and nothing local is removed.
C10_FailedCheckStopsEverything ==
  CheckFailed =>
    /\ pc = "failed"
    /\ Len(ops) = 1
    /\ seen = <<>>
    /\ fs = fs0
    /\ remote = remote0

C10_Witness ==
  /\ CheckFailed
  /\ pc = "failed"
  /\ impl = "aws"

\* ------------------------------------------------------------------ C11

HasTraversal(p) == ".." \in Range(p)

TraversalConfigured ==
  \E i \in DOMAIN opts.paths : HasTraversal(opts.paths[i].path)

\* C11: when some configured path holds a ".." component, the run never
\* completes, issues no storage call (the connectivity check included),
\* reads no local file and removes nothing.
C11_TraversalAbortsBeforeAnyCall ==
  TraversalConfigured /\ Enabled(opts) =>
    /\ pc # "done"
    /\ ops = <<>>
    /\ seen = <<>>
    /\ fs = fs0

\* ------------------------------------------------------------------ C12

\* The local path of configured path p under the build output directory.
LocalOf(p) == Resolve(PathJoin(DirPathname, p))

MissingTarget ==
  \E i \in DOMAIN opts.paths : ~Exists(fs0, LocalOf(opts.paths[i].path))

\* C12: when some configured target does not exist locally at the start
\* of the run, the run never completes and no storage call is issued for
\* any target: no connectivity check, stat, list, put or delete.
C12_MissingTargetFailsBeforeNetwork ==
  MissingTarget /\ Enabled(opts) => pc # "done" /\ ops = <<>>

\* ------------------------------------------------------------------ C13

RemovalOps == {"rimraf", "unlink", "rm"}

Removals == {j \in DOMAIN ops : ops[j].op \in RemovalOps}

NoRemovalFailed == \A j \in Removals : ops[j].ok

\* The removals of the whole subtree of target i.
TargetRemovals(i) == {j \in Removals : ops[j].t = i /\ ops[j].n = 0}

\* C13: when the run has completed, the local path of every target with
\* keep = false is gone, and its removal came after every other operation
\* of that target.
C13_KeepFalseTargetRemovedAtEnd ==
  pc = "done" /\ Enabled(opts) /\ NoRemovalFailed =>
    \A i \in DOMAIN targets :
      ~targets[i].keep =>
        /\ ~Exists(fs, LocalOf(targets[i].path))
        /\ \A j \in TargetRemovals(i) :
             \A k \in DOMAIN ops : ops[k].t = i /\ k # j => k < j

\* ------------------------------------------------------------------ C14

\* The local paths at or below path p when the run began.
Under(p) == {q \in DOMAIN fs0 : IsPrefix(p, q)}

Intact(q) == q \in DOMAIN fs /\ fs[q] = fs0[q]

\* C14 as stated: everything at or below the path of a target with
\* keep = true stays as it was when the run began.
C14_KeepTrueSubtreeUntouched ==
  \A i \in DOMAIN targets :
    targets[i].keep => \A q \in Under(LocalOf(targets[i].path)) : Intact(q)

\* C14, amended: no removal is performed for a target with keep = true.
\* Every removal of the run belongs to a target with keep = false, a local
\* path is gone only when such a removal succeeded at or above it, and no
\* remaining file or directory is modified.
C14_RemovalsOnlyForKeepFalseTargets ==
  /\ \A j \in Removals : ~targets[ops[j].t].keep
  /\ \A q \in DOMAIN fs0 \ DOMAIN fs :
       \E j \in Removals : ops[j].ok /\ IsPrefix(ops[j].key, q)
  /\ \A q \in DOMAIN fs : q \in DOMAIN fs0 /\ fs[q] = fs0[q]

\* A completed run that uploaded for a keep = true target and removed local
\* paths for another target.
C14_Witness ==
  /\ pc = "done"
  /\ \E i \in DOMAIN targets :
       /\ targets[i].keep
       /\ \E j \in DOMAIN ops : ops[j].op = "put" /\ ops[j].ok /\ ops[j].t = i
  /\ \E j \in Removals : ops[j].ok
  /\ DOMAIN fs # DOMAIN fs0

\* ------------------------------------------------------------------ C15

\* The step performs a local removal that fails.
RemovalFails ==
  \E j \in (Len(ops) + 1)..Len(ops') :
    ops'[j].op \in RemovalOps /\ ~ops'[j].ok

\* C15: a local removal that fails does not fail the run.
C15_RemovalFailureDoesNotFailRun ==
  [][RemovalFails => pc' # "failed"]_vars

\* ------------------------------------------------------------------ C16

FailedPuts == {j \in DOMAIN ops : ops[j].op = "put" /\ ~ops[j].ok}

\* C16: after the first failed put no further put is issued.
C16_NoPutAfterFailedPut ==
  \A j \in FailedPuts : \A k \in DOMAIN ops : k > j => ops[k].op # "put"

\* ------------------------------------------------------------------ C17

\* C17: once a put has failed, the run removes no local path: every unlink,
\* rimraf and rm of the log comes before the failed put.
C17_NoRemovalAfterFailedPut ==
  \A j \in FailedPuts : \A k \in Removals : k < j

\* A put has failed for a keep = false target after an earlier target's
\* files were removed, and the hook has been rejected.
C17_Witness ==
  /\ pc = "failed"
  /\ FailedPuts # {}
  /\ Removals # {}
  /\ ~targets[ti].keep

\* ------------------------------------------------------------------ C18

\* The files whose read or put is under way.
InFlight ==
  IF impl = "aws"
    THEN {seen[tasks[i].n].path :
            i \in {j \in DOMAIN tasks : tasks[j].st \in {"reading", "sent", "rejecting"}}}
    ELSE IF pc \in {"isExist", "stat", "delete", "write"} THEN {File_.path} ELSE {}

\* The removals that take file n of seen away.
RemovalsOf(n) == {k \in Removals : IsPrefix(ops[k].key, seen[n].path)}

\* C18: a file a put is issued for is removed only after that put has
\* succeeded, and no file is removed while its read or put is under way.
C18_RemovalOnlyAfterOwnPut ==
  /\ \A n \in DOMAIN seen :
       \A k \in RemovalsOf(n) :
         PutsOf(n) # {} =>
           /\ \A j \in PutsOf(n) : j < k
           /\ \E j \in PutsOf(n) : ops[j].ok
  /\ \A q \in InFlight : Exists(fs, q)

\* A completed run that removed a file it had put, after a batch of two
\* concurrent uploads when the implementation is the AWS-SDK one.
C18_Witness ==
  /\ pc = "done"
  /\ impl = "aws" => Len(tasks) > 1
  /\ \E n \in DOMAIN seen :
       /\ PutsOf(n) # {}
       /\ \E k \in RemovalsOf(n) : ops[k].ok
       /\ ~Exists(fs, seen[n].path)

\* ------------------------------------------------------------------ C19

DisabledFrame ==
  /\ ops = <<>>
  /\ seen = <<>>
  /\ tasks = <<>>
  /\ fs = fs0
  /\ remote = remote0

\* C19 as stated: with enable: false the hook returns successfully, issues
\* no storage call, reads no local file and leaves the local tree and the
\* store as they were, whatever else the options object carries.
C19_DisabledReturnsSuccessfully ==
  opts.enable = {FALSE} => pc \in {"start", "done"} /\ DisabledFrame

\* C19, amended: with enable: false no storage call is issued, no local
\* file is read and the local tree and the store stay as they were.  The
\* hook returns successfully, except in the per-path opendal
\* implementation when the options object lacks what its schema requires:
\* there the validation rejects the hook.
C19_DisabledDoesNothing ==
  opts.enable = {FALSE} =>
    /\ DisabledFrame
    /\ pc \in {"start", "done", "failed"}
    /\ pc = "failed" <=> pc # "start" /\ impl = "v2" /\ ~Valid(opts)

\* The hook has returned under enable: false.
C19_Witness == opts.enable = {FALSE} /\ pc = "done" /\ run = MaxRuns

\* ------------------------------------------------------------------ C20

\* The directory or file the walk of target t starts from.
WalkRoot(t) ==
  IF impl = "v2" THEN Resolve(opts.paths[t].path) ELSE LocalOf(opts.paths[t].path)

\* C20: the targets are processed one at a time in the order of the
\* configured list.  The operations of the log and the files considered
\* are grouped by target in list order, each belongs to the configured
\* path of its position, nothing of a target beyond the running one has
\* begun, and no file is considered under a path removed for an earlier
\* target.
C20_TargetsInListOrder ==
  /\ \A j \in DOMAIN ops, k \in DOMAIN ops : j < k => ops[j].t <= ops[k].t
  /\ \A n \in DOMAIN seen, m \in DOMAIN seen : n < m => seen[n].t <= seen[m].t
  /\ \A j \in DOMAIN ops :
       /\ ops[j].t <= ti
       /\ ops[j].n > 0 => seen[ops[j].n].t = ops[j].t
  /\ \A n \in DOMAIN seen :
       /\ seen[n].t \in 1..ti
       /\ IsPrefix(WalkRoot(seen[n].t), seen[n].path)
       /\ \A k \in Removals :
            ops[k].ok /\ ops[k].t < seen[n].t => ~IsPrefix(ops[k].key, seen[n].path)
  /\ \A j \in Removals :
       ops[j].n = 0 => ops[j].key = LocalOf(opts.paths[ops[j].t].path)
  /\ \A i \in DOMAIN tasks :
       tasks[i].st \in {"reading", "sent", "rejecting"} => seen[tasks[i].n].t = ti

\* A completed run over two targets: a put and a removal for the first,
\* then a put for the second.
C20_Witness ==
  /\ pc = "done"
  /\ Len(targets) = 2
  /\ \E j \in DOMAIN ops, k \in Removals, l \in DOMAIN ops :
       /\ ops[j].op = "put" /\ ops[j].ok /\ ops[j].t = 1
       /\ ops[k].ok /\ ops[k].t = 1
       /\ ops[l].op = "put" /\ ops[l].ok /\ ops[l].t = 2

\* ------------------------------------------------------------------ C21

\* The stats and remote deletes that failed with an error other than
\* NotFound.
FailedChecks ==
  {j \in DOMAIN ops : ops[j].op \in {"stat", "delete"} /\ ~ops[j].ok}

\* C21: in the per-path opendal implementation a stat or a remote delete
\* that fails with an error other than NotFound fails the run.  It is the
\* last operation of the log: no put follows for its key, no further file
\* is considered, nothing is removed locally, and the local tree is as it
\* was when the call was made.
C21_V2StatOrDeleteErrorFailsRun ==
  impl = "v2" =>
    \A j \in FailedChecks :
      /\ pc = "failed"
      /\ j = Len(ops)
      /\ ops[j].n = Len(seen)
      /\ PutsOf(ops[j].n) = {}
      /\ Exists(fs, seen[ops[j].n].path)

\* The remote delete of a file has failed while other entries of a
\* keep = false target were still to be walked.
C21_Witness ==
  /\ impl = "v2"
  /\ \E j \in FailedChecks : ops[j].op = "delete"
  /\ stack # <<>>
  /\ ~targets[ti].keep

\* ------------------------------------------------------------------ C22

\* The keys that held an object when the run began and hold none now.
LostKeys == DOMAIN remote0 \ DOMAIN remote

\* C22 as stated: in the opendal implementations every key that held an
\* object when the run began holds one in every state of the run.
C22_RemoteObjectsNeverLost ==
  impl \in Opendal => LostKeys = {}

\* C22, amended: in the opendal implementations a key that held an object
\* when the run began holds none only for the file being processed, after
\* the successful remote delete of that key and until its put succeeds.
\* When that put fails the run is aborted and the key stays without an
\* object; a run that completes has lost no key.
C22_RemoteObjectLostOnlyBetweenDeleteAndPut ==
  impl \in Opendal =>
    \A k \in LostKeys :
      /\ \E j \in DeletesOf(Len(seen)) : ops[j].ok /\ ops[j].key = k
      /\ \A l \in PutsOf(Len(seen)) : ~ops[l].ok
      /\ pc \in {"write", "failed"}
      /\ pc = "failed" => Len(ops) \in FailedPuts /\ ops[Len(ops)].key = k

\* The put that follows a successful remote delete has failed: the run is
\* aborted and the key holds no object any more.
C22_Witness ==
  /\ impl \in Opendal
  /\ pc = "failed"
  /\ LostKeys # {}
  /\ FailedPuts # {}

====
